---- MODULE Spec2Model ----
(***************************************************************************)
(* A model of the schema subset extraction (extract_paths) and of the      *)
(* structural schema diff (diff_schemas) of scripts/openapi.py.            *)
(*                                                                         *)
(* JSON documents are tagged values: [map |-> f], [list |-> s],            *)
(* [str |-> "..."], [num |-> n], [bool |-> b] and None ([null |-> TRUE],   *)
(* which is both JSON null and Python's None).  Strings are TLA+ strings;  *)
(* TLC evaluates Len, SubSeq and \o on them, so startswith, split,         *)
(* removeprefix, upper, sorted and json.dumps are computed character by    *)
(* character as the Python code computes them.                             *)
(***************************************************************************)
EXTENDS Integers, Sequences, FiniteSets, TLC

VARIABLES
    pc,            \* position of the running call
    S,             \* the schema document the extraction starts from
    P,             \* the pattern tuple the extraction starts from
    round,         \* which extract_paths call is running (1, 2 or 3)
    schema,        \* extract_paths: the argument  schema
    paths,         \* extract_paths: the argument  paths
    kept_paths,    \* extract_paths: the local  kept_paths
    needed_refs,   \* extract_paths: the local  needed_refs
    prev_size,     \* extract_paths: the local  prev_size
    subset,        \* extract_paths: the returned  subset
    passes,        \* how many passes the while loop of the call has made
    results,       \* the values returned by the finished extract_paths calls
    A,             \* the first document handed to diff_schemas
    B,             \* the second document handed to diff_schemas
    paths_filter,  \* diff_schemas: the argument  paths_filter
    diffs          \* what the diff_schemas calls returned, in order

vars == <<pc, S, P, round, schema, paths, kept_paths, needed_refs, prev_size,
          subset, passes, results, A, B, paths_filter, diffs>>

extractVars == <<S, P, round, schema, paths, kept_paths, needed_refs, prev_size,
                 subset, passes, results>>
diffVars == <<A, B, paths_filter>>

-----------------------------------------------------------------------------
(* Bounds of the model. *)

\* longest pattern tuple handed to extract_paths
MaxPatterns == 2

\* longest parameter list of an operation
MaxParams == 2

-----------------------------------------------------------------------------
(* JSON values. *)

None == [null |-> TRUE]
Str(s) == [str |-> s]
Num(n) == [num |-> n]
Bool(b) == [bool |-> b]
List(l) == [list |-> l]
Map(f) == [map |-> f]
EmptyMap == Map(<<>>)

IsMap(v) == DOMAIN v = {"map"}
IsList(v) == DOMAIN v = {"list"}
IsStr(v) == DOMAIN v = {"str"}

\* dict.get(key, default) on a mapping
Get(d, key, default) == IF key \in DOMAIN d.map THEN d.map[key] ELSE default

-----------------------------------------------------------------------------
(* Python string operations. *)

\* s.startswith(prefix)
StartsWith(s, prefix) ==
    /\ Len(s) >= Len(prefix)
    /\ SubSeq(s, 1, Len(prefix)) = prefix

\* s[n:]
DropPrefix(s, n) == SubSeq(s, n + 1, Len(s))

\* s.removeprefix(prefix)
RemovePrefix(s, prefix) ==
    IF StartsWith(s, prefix) THEN DropPrefix(s, Len(prefix)) ELSE s

\* s.split("/"): the pieces between the slashes, empty pieces included
RECURSIVE SplitAcc(_, _, _)
SplitAcc(s, piece, done) ==
    IF s = "" THEN Append(done, piece)
    ELSE IF SubSeq(s, 1, 1) = "/"
         THEN SplitAcc(DropPrefix(s, 1), "", Append(done, piece))
         ELSE SplitAcc(DropPrefix(s, 1), piece \o SubSeq(s, 1, 1), done)

Split(s) == SplitAcc(s, "", <<>>)

\* The printable ASCII characters in code-point order (the backtick cannot be
\* written in a TLA+ string; no string of the model holds one).
CodePoints ==
    " !\"#$%&'()*+,-./0123456789:;<=>?@ABCDEFGHIJKLMNOPQRSTUVWXYZ[\\]^_abcdefghijklmnopqrstuvwxyz{|}~"

\* the rank of each character
OrdTable ==
    [c \in {SubSeq(CodePoints, i, i) : i \in 1..Len(CodePoints)} |->
        CHOOSE i \in 1..Len(CodePoints) : SubSeq(CodePoints, i, i) = c]

Ord(c) == OrdTable[c]

\* a < b  on Python strings: by code point, a proper prefix first
RECURSIVE StrLess(_, _)
StrLess(a, b) ==
    IF b = "" THEN FALSE
    ELSE IF a = "" THEN TRUE
    ELSE IF SubSeq(a, 1, 1) = SubSeq(b, 1, 1)
         THEN StrLess(DropPrefix(a, 1), DropPrefix(b, 1))
         ELSE Ord(SubSeq(a, 1, 1)) < Ord(SubSeq(b, 1, 1))

\* sorted(keys)  for a set of strings
RECURSIVE Sorted(_)
Sorted(keys) ==
    IF keys = {} THEN <<>>
    ELSE LET least == CHOOSE k \in keys : \A other \in keys \ {k} : StrLess(k, other)
         IN  <<least>> \o Sorted(keys \ {least})

LowerCase == "abcdefghijklmnopqrstuvwxyz"
UpperCase == "ABCDEFGHIJKLMNOPQRSTUVWXYZ"

UpperTable ==
    [c \in {SubSeq(LowerCase, i, i) : i \in 1..Len(LowerCase)} |->
        LET i == CHOOSE j \in 1..Len(LowerCase) : SubSeq(LowerCase, j, j) = c
        IN  SubSeq(UpperCase, i, i)]

UpperChar(c) == IF c \in DOMAIN UpperTable THEN UpperTable[c] ELSE c

\* s.upper()
RECURSIVE Upper(_)
Upper(s) ==
    IF s = "" THEN "" ELSE UpperChar(SubSeq(s, 1, 1)) \o Upper(DropPrefix(s, 1))

\* ", ".join(pieces)
RECURSIVE Join(_)
Join(pieces) ==
    IF pieces = <<>> THEN ""
    ELSE IF Len(pieces) = 1 THEN pieces[1]
    ELSE pieces[1] \o ", " \o Join(Tail(pieces))

\* the concatenation of a sequence of lists
RECURSIVE Concat(_)
Concat(lists) ==
    IF lists = <<>> THEN <<>> ELSE Head(lists) \o Concat(Tail(lists))

\* str(n) for a natural number
RECURSIVE Digits(_)
Digits(n) ==
    IF n < 10 THEN SubSeq("0123456789", n + 1, n + 1)
    ELSE Digits(n \div 10) \o SubSeq("0123456789", (n % 10) + 1, (n % 10) + 1)

\* the body of a JSON string literal: quote and backslash escaped
RECURSIVE Escaped(_)
Escaped(s) ==
    IF s = "" THEN ""
    ELSE LET c == SubSeq(s, 1, 1)
         IN  (IF c = "\"" \/ c = "\\" THEN "\\" \o c ELSE c)
             \o Escaped(DropPrefix(s, 1))

\* json.dumps(v, sort_keys=True)
RECURSIVE JsonDumps(_)
JsonDumps(v) ==
    IF IsMap(v)
    THEN LET keys == Sorted(DOMAIN v.map)
         IN  "{" \o Join([i \in DOMAIN keys |->
                            "\"" \o Escaped(keys[i]) \o "\": "
                                 \o JsonDumps(v.map[keys[i]])]) \o "}"
    ELSE IF IsList(v)
    THEN "[" \o Join([i \in DOMAIN v.list |-> JsonDumps(v.list[i])]) \o "]"
    ELSE IF IsStr(v) THEN "\"" \o Escaped(v.str) \o "\""
    ELSE IF DOMAIN v = {"num"} THEN Digits(v.num)
    ELSE IF DOMAIN v = {"bool"} THEN (IF v.bool THEN "true" ELSE "false")
    ELSE "null"

-----------------------------------------------------------------------------
(* Extract: _collect_refs, _resolve_ref, _prune_components. *)

\* The set of strings  _collect_refs(obj, refs)  adds to  refs.
RECURSIVE CollectRefs(_)
CollectRefs(obj) ==
    IF IsMap(obj)
    THEN (IF "$ref" \in DOMAIN obj.map /\ IsStr(obj.map["$ref"])
          THEN {obj.map["$ref"].str}
          ELSE {})
         \cup UNION {CollectRefs(obj.map[k]) : k \in DOMAIN obj.map}
    ELSE IF IsList(obj)
         THEN UNION {CollectRefs(obj.list[i]) : i \in DOMAIN obj.list}
         ELSE {}

\* The loop of _resolve_ref over the parts of the pointer.
RECURSIVE WalkParts(_, _)
WalkParts(parts, current) ==
    IF parts = <<>> THEN current
    ELSE IF IsMap(current) /\ Head(parts) \in DOMAIN current.map
         THEN WalkParts(Tail(parts), current.map[Head(parts)])
         ELSE None

ResolveRef(ref, root) ==
    IF ~StartsWith(ref, "#/") THEN None
    ELSE WalkParts(Split(DropPrefix(ref, 2)), root)

\* _prune_components without the  len(parts) == 2  test of line 299: the first
\* two segments of any pointer under #/components/ name an entry.
PrunedEntriesLoose(components, refs) ==
    {e \in {<<parts[1], parts[2]>> :
                parts \in {p \in {Split(RemovePrefix(ref, "#/components/")) :
                                     ref \in {r \in refs :
                                                StartsWith(r, "#/components/")}} :
                              Len(p) >= 2}} :
        /\ e[1] \in DOMAIN components.map
        /\ e[2] \in DOMAIN components.map[e[1]].map}

\* The (category, name) pairs _prune_components keeps.  The categories of
\* components  are mappings in every document of the model.
PrunedEntries(components, refs) ==
    {e \in UNION {{Split(RemovePrefix(ref, "#/components/"))} :
                    ref \in {r \in refs : StartsWith(r, "#/components/")}} :
        /\ Len(e) = 2
        /\ e[1] \in DOMAIN components.map
        /\ e[2] \in DOMAIN components.map[e[1]].map}

PruneComponents(components, refs) ==
    LET kept == PrunedEntries(components, refs)
    IN  Map([category \in {e[1] : e \in kept} |->
              Map([name \in {e[2] : e \in {x \in kept : x[1] = category}} |->
                    components.map[category].map[name]])])

\* The filter of lines 229-234 with a  break  after the first pattern found.
FilterPathsFirst(doc, patterns) ==
    LET all_paths == Get(doc, "paths", EmptyMap)
        found == {i \in DOMAIN patterns : patterns[i] \in DOMAIN all_paths.map}
        first == {i \in found : \A j \in found : i <= j}
    IN  Map([pattern \in {patterns[i] : i \in first} |-> all_paths.map[pattern]])

\* Lines 229-234: the filter of schema.paths.
FilterPaths(doc, patterns) ==
    LET all_paths == Get(doc, "paths", EmptyMap)
    IN  Map([pattern \in {patterns[i] : i \in DOMAIN patterns}
                           \cap DOMAIN all_paths.map |->
              all_paths.map[pattern]])

\* One pass of the  for ref in list(needed_refs)  loop: what it adds.
PassAdds(doc, refs) ==
    UNION {CollectRefs(ResolveRef(ref, doc)) :
             ref \in {r \in refs : ResolveRef(r, doc) # None}}

\* Lines 251-258: the returned document.
Assemble(doc, kept, kept_components) ==
    LET base == ("openapi" :> Get(doc, "openapi", Str("3.0.0")))
                @@ ("info" :> Get(doc, "info", EmptyMap))
                @@ ("paths" :> kept)
    IN  IF kept_components # EmptyMap
        THEN Map(base @@ ("components" :> kept_components))
        ELSE Map(base)

-----------------------------------------------------------------------------
(* Diff: diff_schemas, _diff_path_item, _diff_operation. *)

\* A call that raises (AttributeError, TypeError) returns Fault; one that
\* returns the value v returns Ok(v).
Fault == [fault |-> TRUE]
Ok(v) == [ok |-> v]
IsFault(r) == DOMAIN r = {"fault"}

\* str(v) as an f-string formats it (strings, numbers, booleans and None)
PyStr(v) ==
    IF IsStr(v) THEN v.str
    ELSE IF DOMAIN v = {"num"} THEN Digits(v.num)
    ELSE IF DOMAIN v = {"bool"} THEN (IF v.bool THEN "True" ELSE "False")
    ELSE "None"

\* _param_key(param), for a param that is a mapping
ParamKey(param) ==
    PyStr(Get(param, "in", Str("?"))) \o ":" \o PyStr(Get(param, "name", Str("?")))

\* The dict of lines 428-429 built with  param["in"]  and  param["name"]  in
\* place of the  .get  calls of _param_key: a parameter that lacks either raises.
ParamsByKeyStrict(operation) ==
    LET params == Get(operation, "parameters", List(<<>>))
    IN  IF IsList(params)
        THEN IF \E i \in DOMAIN params.list :
                    \/ ~IsMap(params.list[i])
                    \/ ~({"in", "name"} \subseteq DOMAIN params.list[i].map)
             THEN Fault
             ELSE LET items == params.list
                      last(key) == CHOOSE i \in DOMAIN items :
                                      /\ ParamKey(items[i]) = key
                                      /\ \A j \in DOMAIN items :
                                           ParamKey(items[j]) = key => j <= i
                  IN  Ok([key \in {ParamKey(items[i]) : i \in DOMAIN items} |->
                            items[last(key)]])
        ELSE IF params = EmptyMap \/ params = Str("") THEN Ok(<<>>)
        ELSE Fault

\* {_param_key(p): p for p in operation.get("parameters", [])}: the last
\* parameter with a key is the one the dict holds.  Iterating a value that is
\* no list raises, and so does _param_key on an item that is no mapping;
\* an empty mapping or string iterates over nothing.
ParamsByKey(operation) ==
    LET params == Get(operation, "parameters", List(<<>>))
    IN  IF IsList(params)
        THEN IF \E i \in DOMAIN params.list : ~IsMap(params.list[i])
             THEN Fault
             ELSE LET items == params.list
                      last(key) == CHOOSE i \in DOMAIN items :
                                      /\ ParamKey(items[i]) = key
                                      /\ \A j \in DOMAIN items :
                                           ParamKey(items[j]) = key => j <= i
                  IN  Ok([key \in {ParamKey(items[i]) : i \in DOMAIN items} |->
                            items[last(key)]])
        ELSE IF params = EmptyMap \/ params = Str("") THEN Ok(<<>>)
        ELSE Fault

\* _extract_body_schema(operation): .get on a value that is no mapping raises
ExtractBodySchema(operation) ==
    LET body == Get(operation, "requestBody", EmptyMap)
    IN  IF ~IsMap(body) THEN Fault
        ELSE LET content == Get(body, "content", EmptyMap)
             IN  IF ~IsMap(content) THEN Fault
                 ELSE LET json_content ==
                              Get(content, "application/json",
                                  Get(content, "multipart/form-data", EmptyMap))
                      IN  IF ~IsMap(json_content) THEN Fault
                          ELSE Ok(Get(json_content, "schema", None))

\* set(operation.get("responses", {})): the keys of a mapping, the items of a
\* list of strings, the characters of a string; anything else raises.
ResponseCodes(operation) ==
    LET responses == Get(operation, "responses", EmptyMap)
    IN  IF IsMap(responses) THEN Ok(DOMAIN responses.map)
        ELSE IF IsStr(responses)
        THEN Ok({SubSeq(responses.str, i, i) : i \in 1..Len(responses.str)})
        ELSE IF IsList(responses)
                /\ \A i \in DOMAIN responses.list : IsStr(responses.list[i])
        THEN Ok({responses.list[i].str : i \in DOMAIN responses.list})
        ELSE Fault

\* Lines 428-440: the parameter descriptors.
ParamDiffs(tag, old_params, new_params) ==
    LET keys == Sorted(DOMAIN old_params \cup DOMAIN new_params)
    IN  Concat([i \in DOMAIN keys |->
                  IF keys[i] \notin DOMAIN old_params
                  THEN <<tag \o " param added: " \o keys[i]>>
                  ELSE IF keys[i] \notin DOMAIN new_params
                  THEN <<tag \o " param removed: " \o keys[i]>>
                  ELSE IF JsonDumps(old_params[keys[i]])
                            # JsonDumps(new_params[keys[i]])
                  THEN <<tag \o " param changed: " \o keys[i]>>
                  ELSE <<>>])

\* Lines 442-446: the request body descriptor.
BodyDiffs(tag, old_body, new_body) ==
    IF JsonDumps(old_body) # JsonDumps(new_body)
    THEN <<tag \o " request body changed">>
    ELSE <<>>

\* The two loops of lines 451-454 in the other order: removed codes first.
ResponseDiffsRemovedFirst(tag, old_responses, new_responses) ==
    LET added == Sorted(new_responses \ old_responses)
        removed == Sorted(old_responses \ new_responses)
    IN  [i \in DOMAIN removed |-> tag \o " response removed: " \o removed[i]]
        \o [i \in DOMAIN added |-> tag \o " response added: " \o added[i]]

\* Lines 448-454: the response descriptors.
ResponseDiffs(tag, old_responses, new_responses) ==
    LET added == Sorted(new_responses \ old_responses)
        removed == Sorted(old_responses \ new_responses)
    IN  [i \in DOMAIN added |-> tag \o " response added: " \o added[i]]
        \o [i \in DOMAIN removed |-> tag \o " response removed: " \o removed[i]]

\* _diff_operation(method, old, new)
DiffOperation(method, old, new) ==
    IF ~IsMap(old) \/ ~IsMap(new) THEN Fault
    ELSE LET tag == Upper(method)
             old_params == ParamsByKey(old)
             new_params == ParamsByKey(new)
             old_body == ExtractBodySchema(old)
             new_body == ExtractBodySchema(new)
             old_responses == ResponseCodes(old)
             new_responses == ResponseCodes(new)
         IN  IF \/ IsFault(old_params) \/ IsFault(new_params)
                \/ IsFault(old_body) \/ IsFault(new_body)
                \/ IsFault(old_responses) \/ IsFault(new_responses)
             THEN Fault
             ELSE Ok(ParamDiffs(tag, old_params.ok, new_params.ok)
                     \o BodyDiffs(tag, old_body.ok, new_body.ok)
                     \o ResponseDiffs(tag, old_responses.ok, new_responses.ok))

\* The test of line 406 without its second half: only "x-" keys are skipped.
IsMethodKeyKeepsParameters(key) == ~StartsWith(key, "x-")

\* the keys _diff_path_item does not skip
IsMethodKey(key) == ~(StartsWith(key, "x-") \/ key = "parameters")

\* _diff_path_item(old, new), for path items that are mappings
DiffPathItem(old, new) ==
    LET all_methods == Sorted(DOMAIN old.map \cup DOMAIN new.map)
        common == {m \in DOMAIN old.map \cap DOMAIN new.map : IsMethodKey(m)}
        method_diffs == [m \in common |-> DiffOperation(m, old.map[m], new.map[m])]
    IN  IF \E m \in common : IsFault(method_diffs[m])
        THEN Fault
        ELSE Ok(Concat([i \in DOMAIN all_methods |->
                   LET method == all_methods[i]
                   IN  IF ~IsMethodKey(method) THEN <<>>
                       ELSE IF method \notin DOMAIN old.map
                       THEN <<"method added: " \o Upper(method)>>
                       ELSE IF method \notin DOMAIN new.map
                       THEN <<"method removed: " \o Upper(method)>>
                       ELSE method_diffs[method].ok]))

\* Lines 371-376: the paths of a document, restricted to the filter if any.
FilteredPaths(doc, filter) ==
    LET all_paths == Get(doc, "paths", EmptyMap).map
    IN  IF filter # None
        THEN [k \in {key \in DOMAIN all_paths :
                       \E i \in DOMAIN filter.list : filter.list[i] = key} |->
                all_paths[k]]
        ELSE all_paths

\* diff_schemas(old, new, paths_filter=filter): the SchemaDiff, whose
\* changed_paths is the list of its (path, descriptors) items in insertion
\* order.
DiffSchemas(old, new, filter) ==
    LET old_paths == FilteredPaths(old, filter)
        new_paths == FilteredPaths(new, filter)
        old_keys == DOMAIN old_paths
        new_keys == DOMAIN new_paths
        both == Sorted(old_keys \cap new_keys)
        item_diffs == [path \in old_keys \cap new_keys |->
                         DiffPathItem(old_paths[path], new_paths[path])]
    IN  IF \E path \in old_keys \cap new_keys : IsFault(item_diffs[path])
        THEN Fault
        ELSE Ok([added_paths |-> Sorted(new_keys \ old_keys),
                 removed_paths |-> Sorted(old_keys \ new_keys),
                 changed_paths |->
                     Concat([i \in DOMAIN both |->
                               IF item_diffs[both[i]].ok # <<>>
                               THEN <<<<both[i], item_diffs[both[i]].ok>>>>
                               ELSE <<>>])])

\* SchemaDiff.has_changes
HasChanges(d) ==
    d.added_paths # <<>> \/ d.removed_paths # <<>> \/ d.changed_paths # <<>>

-----------------------------------------------------------------------------
(* The documents and pattern tuples the extraction is run on. *)

RefTag == "#/components/schemas/Tag"
RefTagList == "#/components/schemas/TagList"
RefCorrespondent == "#/components/schemas/Correspondent"
RefPage == "#/components/parameters/Page"
RefTagDeep == "#/components/schemas/Tag/properties/x"
RefPing == "#/paths/ping"
RefMissing == "#/components/schemas/Missing"
RefExternal == "other.json#/components/schemas/Tag"
RefCategory == "#/components/schemas"
RefThroughString == "#/info/title/x"
RefThroughList == "#/paths/ping/parameters/0"

\* a mapping holding one reference
RefTo(r) == Map("$ref" :> Str(r))

\* what the slot of a document holds: a reference, a $ref that is no string,
\* or no reference at all
Slot(c) ==
    IF c = "none" THEN Map("type" :> Str("string"))
    ELSE IF c = "number" THEN Map("$ref" :> Num(5))
    ELSE RefTo(c)

TagsSlots == {RefTag, RefTagList, RefTagDeep, RefPing, RefMissing, RefExternal,
              RefCategory, RefThroughList}
TagSlots == {RefTagList, RefTag, RefCorrespondent, RefThroughString, "number"}
TagListSlots == {RefTag, RefTagList, RefPage, "none"}
Shapes == {"full", "no paths", "no components", "no openapi, no info"}

ExtractDoc(tags, tag, taglist, shape) ==
    LET tagsItem ==
            Map("get" :> Map("responses" :> Map("200" :> Map("content" :>
                    Map("application/json" :> Map("schema" :> Slot(tags)))))))
        pingItem ==
            Map(("get" :> Map("responses" :> Map("200" :> RefTo(RefTagList))))
                @@ ("parameters" :> List(<<RefTo(RefPage)>>)))
        thePaths ==
            Map(("/api/tags/" :> tagsItem) @@ ("ping" :> pingItem))
        theComponents ==
            Map(("schemas" :>
                   Map(("Tag" :> Map(("type" :> Str("object"))
                                     @@ ("properties" :> Map("x" :> Slot(tag)))))
                       @@ ("TagList" :> Map(("type" :> Str("array"))
                                            @@ ("items" :> Slot(taglist))))
                       @@ ("Correspondent" :> Map("type" :> Str("object")))))
                @@ ("parameters" :>
                      Map("Page" :> Map(("in" :> Str("query"))
                                        @@ ("name" :> Str("page"))))))
        meta == ("openapi" :> Str("3.0.3"))
                @@ ("info" :> Map("title" :> Str("Paperless")))
    IN  Map((IF shape = "no openapi, no info" THEN <<>> ELSE meta)
            @@ (IF shape = "no paths" THEN <<>> ELSE ("paths" :> thePaths))
            @@ (IF shape = "no components" THEN <<>>
                ELSE ("components" :> theComponents)))

\* every combination of references in a full document, and documents that
\* lack keys
ExtractDocs ==
    {ExtractDoc(tags, tag, taglist, "full") :
        tags \in TagsSlots, tag \in TagSlots, taglist \in TagListSlots}
    \cup {ExtractDoc(tags, RefTagList, RefTag, shape) :
            tags \in TagsSlots, shape \in Shapes}

PatternPool == {"/api/tags/", "ping", "/api/none/"}

PatternTuples == UNION {[1..n -> PatternPool] : n \in 0..MaxPatterns}

-----------------------------------------------------------------------------
(* The documents diff_schemas is run on. *)

pPage == Map(("in" :> Str("query")) @@ ("name" :> Str("page")))
pPageRequired ==
    Map(("in" :> Str("query")) @@ ("name" :> Str("page"))
        @@ ("required" :> Bool(TRUE)))
pPageSize == Map(("in" :> Str("query")) @@ ("name" :> Str("page_size")))
pNoIn == Map("name" :> Str("page"))
pQuestion == Map(("in" :> Str("?")) @@ ("name" :> Str("page")))
pNoName == Map("in" :> Str("query"))

ParamPool == {pPage, pPageRequired, pPageSize, pNoIn, pQuestion}

ParamLists == UNION {[1..n -> ParamPool] : n \in 0..MaxParams}

\* the lists of the second document: one parameter at most, or one of a few
\* lists of two
ShortParamLists ==
    {<<>>} \cup {<<p>> : p \in ParamPool}
    \cup {<<pPage, pPageRequired>>, <<pPageRequired, pPage>>, <<pPage, pPageSize>>}

\* the parts an operation is made of; <<>> leaves the key out
ParamParts(lists) ==
    {<<>>, "parameters" :> List(<<pNoName>>)}
    \cup {"parameters" :> List(l) : l \in lists}

JsonBody(v) ==
    "requestBody" :> Map("content" :> Map("application/json" :> Map("schema" :> v)))
FormBody(v) ==
    "requestBody" :>
        Map("content" :> Map("multipart/form-data" :> Map("schema" :> v)))
BothBody(v, w) ==
    "requestBody" :>
        Map("content" :> Map(("application/json" :> Map("schema" :> v))
                             @@ ("multipart/form-data" :> Map("schema" :> w))))

BodyParts ==
    {<<>>,
     JsonBody(RefTo(RefTag)), JsonBody(RefTo(RefTagList)),
     FormBody(RefTo(RefTag)), FormBody(RefTo(RefTagList)),
     BothBody(RefTo(RefTag), RefTo(RefTagList)),
     "requestBody" :> EmptyMap,
     "requestBody" :> Map("content" :> Map("application/json" :> EmptyMap))}

Response(text) == Map("description" :> Str(text))

ResponseParts ==
    {<<>>,
     "responses" :> EmptyMap,
     "responses" :> Map("200" :> Response("ok")),
     "responses" :> Map("200" :> Response("fine")),
     "responses" :> Map(("200" :> Response("ok")) @@ ("404" :> Response("gone"))),
     "responses" :> Map(("201" :> Response("made")) @@ ("404" :> Response("gone")))}

Operation(params, body, responses) == Map(params @@ body @@ responses)

BaseParams == "parameters" :> List(<<pPage>>)
BaseResponses == "responses" :> Map("200" :> Response("ok"))
BaseOperation == Operation(BaseParams, <<>>, BaseResponses)

\* operations that differ from the base one in one part, and some that differ
\* in all three
Operations(lists) ==
    {Operation(p, <<>>, BaseResponses) : p \in ParamParts(lists)}
    \cup {Operation(BaseParams, b, BaseResponses) : b \in BodyParts}
    \cup {Operation(BaseParams, <<>>, r) : r \in ResponseParts}
    \cup {Operation("parameters" :> List(<<pPage, pPageSize>>), b, r) :
            b \in {JsonBody(RefTo(RefTag)), JsonBody(RefTo(RefTagList))},
            r \in {"responses" :> Map("404" :> Response("gone")),
                   "responses" :> Map(("200" :> Response("ok"))
                                      @@ ("201" :> Response("made")))}}

PathItems(lists) ==
    {Map("get" :> op) : op \in Operations(lists)}
    \cup {Map(("get" :> BaseOperation) @@ extra) :
            extra \in {"parameters" :> List(<<pPage>>),
                       "parameters" :> List(<<pPageSize>>),
                       "x-internal" :> Str("a"),
                       "x-internal" :> Str("b"),
                       "summary" :> Str("Tags"),
                       "post" :> BaseOperation}}
    \cup {Map("post" :> BaseOperation)}

Document(thePaths) == Map(("openapi" :> Str("3.0.3")) @@ thePaths)

DiffDocs(lists) ==
    {Document("paths" :> Map("/api/tags/" :> item)) : item \in PathItems(lists)}
    \cup {Document("paths" :> Map(("/api/tags/" :> Map("get" :> BaseOperation))
                                  @@ ("/api/foo/" :> Map("get" :> BaseOperation)))),
          Document("paths" :> Map("/api/foo/" :> Map("get" :> BaseOperation))),
          Document("paths" :> Map(("/api/foo/" :> Map("get" :> BaseOperation))
                                  @@ ("/api/bar/" :> Map("get" :> BaseOperation)))),
          Document("paths" :> EmptyMap),
          Document(<<>>)}

\* paths_filter: None, or the tuple of the paths to compare
PathFilters == {None, List(<<"/api/tags/", "/api/bar/">>)}

-----------------------------------------------------------------------------
(* extract_paths, one statement group at a time; diff_schemas, one call at a
   time. *)

InitExtract ==
    /\ S \in ExtractDocs
    /\ P \in PatternTuples
    /\ round = 1
    /\ schema = S
    /\ paths = P
    /\ pc = "extract"
    /\ kept_paths = None
    /\ needed_refs = {}
    /\ prev_size = -1
    /\ subset = None
    /\ passes = 0
    /\ results = <<>>
    /\ A = None
    /\ B = None
    /\ paths_filter = None
    /\ diffs = <<>>

InitDiff ==
    /\ A \in DiffDocs(ParamLists)
    /\ B \in DiffDocs(ShortParamLists)
    /\ paths_filter \in PathFilters
    /\ diffs = <<>>
    /\ pc = "diff"
    /\ S = None
    /\ P = <<>>
    /\ round = 0
    /\ schema = None
    /\ paths = <<>>
    /\ kept_paths = None
    /\ needed_refs = {}
    /\ prev_size = -1
    /\ subset = None
    /\ passes = 0
    /\ results = <<>>

Init == InitExtract \/ InitDiff

\* Lines 229-241: the kept paths, the seed of the closure, prev_size = -1.
Filter ==
    /\ pc = "extract"
    /\ kept_paths' = FilterPaths(schema, paths)
    /\ needed_refs' = CollectRefs(FilterPaths(schema, paths))
    /\ prev_size' = -1
    /\ pc' = "while"
    /\ UNCHANGED <<S, P, round, schema, paths, subset, passes, results>>
    /\ UNCHANGED <<diffVars, diffs>>

\* The pass of lines 242-247 with  prev_size  taken after the for loop instead
\* of before it.
ClosurePassSizeAfter ==
    /\ pc = "while"
    /\ Cardinality(needed_refs) # prev_size
    /\ needed_refs' = needed_refs \cup PassAdds(schema, needed_refs)
    /\ prev_size' = Cardinality(needed_refs')
    /\ passes' = passes + 1
    /\ UNCHANGED <<pc, S, P, round, schema, paths, kept_paths, subset, results>>
    /\ UNCHANGED <<diffVars, diffs>>

\* Lines 242-247: the test of the while loop and, when it holds, one pass of
\* the for loop over the snapshot  list(needed_refs).
ClosurePass ==
    /\ pc = "while"
    /\ Cardinality(needed_refs) # prev_size
    /\ prev_size' = Cardinality(needed_refs)
    /\ needed_refs' = needed_refs \cup PassAdds(schema, needed_refs)
    /\ passes' = passes + 1
    /\ UNCHANGED <<pc, S, P, round, schema, paths, kept_paths, subset, results>>
    /\ UNCHANGED <<diffVars, diffs>>

\* Lines 249-258 with the pruned components and the kept paths written into
\* the schema itself, which is then returned.
ReturnPruningInPlace ==
    /\ pc = "while"
    /\ Cardinality(needed_refs) = prev_size
    /\ subset' = Assemble(schema, kept_paths,
                          PruneComponents(Get(schema, "components", EmptyMap),
                                          needed_refs))
    /\ schema' = subset'
    /\ S' = subset'
    /\ results' = Append(results, subset')
    /\ pc' = "done"
    /\ UNCHANGED <<P, round, paths, kept_paths, needed_refs, prev_size, passes>>
    /\ UNCHANGED <<diffVars, diffs>>

\* Lines 242, 249-258: the loop is left, the components are pruned and the
\* subset is returned.
Return ==
    /\ pc = "while"
    /\ Cardinality(needed_refs) = prev_size
    /\ subset' = Assemble(schema, kept_paths,
                          PruneComponents(Get(schema, "components", EmptyMap),
                                          needed_refs))
    /\ results' = Append(results, subset')
    /\ pc' = "done"
    /\ UNCHANGED <<S, P, round, schema, paths, kept_paths, needed_refs,
                   prev_size, passes>>
    /\ UNCHANGED <<diffVars, diffs>>

\* extract_paths(extract_paths(S, P), P): the second call, on the first result.
ReExtract ==
    /\ pc = "done"
    /\ round = 1
    /\ round' = 2
    /\ schema' = results[1]
    /\ paths' = P
    /\ pc' = "extract"
    /\ kept_paths' = None
    /\ needed_refs' = {}
    /\ prev_size' = -1
    /\ subset' = None
    /\ passes' = 0
    /\ UNCHANGED <<S, P, results, diffVars, diffs>>

\* extract_paths(S, P2) for a tuple P2 that extends P by one pattern.
ExtractMore ==
    /\ pc = "done"
    /\ round = 2
    /\ Len(P) < MaxPatterns
    /\ round' = 3
    /\ schema' = S
    /\ \E pattern \in PatternPool : paths' = Append(P, pattern)
    /\ pc' = "extract"
    /\ kept_paths' = None
    /\ needed_refs' = {}
    /\ prev_size' = -1
    /\ subset' = None
    /\ passes' = 0
    /\ UNCHANGED <<S, P, results, diffVars, diffs>>

\* diff_schemas(A, B, paths_filter=paths_filter)
DiffForward ==
    /\ pc = "diff"
    /\ Len(diffs) = 0
    /\ diffs' = Append(diffs, DiffSchemas(A, B, paths_filter))
    /\ UNCHANGED <<pc, extractVars, diffVars>>

\* diff_schemas(B, A, paths_filter=paths_filter)
DiffBackward ==
    /\ pc = "diff"
    /\ Len(diffs) = 1
    /\ diffs' = Append(diffs, DiffSchemas(B, A, paths_filter))
    /\ UNCHANGED <<pc, extractVars, diffVars>>

\* diff_schemas(A, A, paths_filter=paths_filter)
DiffSelf ==
    /\ pc = "diff"
    /\ Len(diffs) = 2
    /\ diffs' = Append(diffs, DiffSchemas(A, A, paths_filter))
    /\ pc' = "diffed"
    /\ UNCHANGED <<extractVars, diffVars>>

Next ==
    \/ Filter
    \/ ClosurePass
    \/ Return
    \/ ReExtract
    \/ ExtractMore
    \/ DiffForward
    \/ DiffBackward
    \/ DiffSelf

Spec == Init /\ [][Next]_vars

-----------------------------------------------------------------------------
(* Definitions the properties are stated with. *)

\* the keys of a mapping held under  key  (none when the key is missing)
KeysUnder(doc, key) == DOMAIN Get(doc, key, EmptyMap).map

\* the (category, name) pairs of a document's components
ComponentEntries(doc) ==
    UNION {{<<category, name>> :
              name \in DOMAIN Get(doc, "components", EmptyMap).map[category].map} :
           category \in KeysUnder(doc, "components")}

ComponentAt(doc, e) == doc.map["components"].map[e[1]].map[e[2]]

Pointer(e) == "#/components/" \o e[1] \o "/" \o e[2]

\* The least set of reference strings that holds every $ref inside  seed  and
\* every $ref inside the value a member resolves to in  doc.
RECURSIVE LeastClosure(_, _)
LeastClosure(doc, refs) ==
    LET targets == {ResolveRef(r, doc) : r \in refs}
        more == refs \cup UNION {CollectRefs(t) : t \in targets}
    IN  IF more = refs THEN refs ELSE LeastClosure(doc, more)

Reachable(doc, kept) == LeastClosure(doc, CollectRefs(kept))

\* C1: extracting again from the result of an extraction, with the same
\* patterns, returns the same document.
C1_Idempotent ==
    Len(results) >= 2 => results[2] = results[1]

\* C2: every reference reachable from a kept path of the result is not a local
\* pointer, or resolves to a value inside the result's own components.
C2_ClosureComplete ==
    pc = "done" =>
        \A ref \in Reachable(subset, subset.map["paths"]) :
            \/ ~StartsWith(ref, "#/")
            \/ /\ StartsWith(ref, "#/components/")
               /\ ResolveRef(ref, subset) # None

\* C5: the kept paths are exactly the paths of the schema that occur in the
\* patterns, each with the path item of the schema, and a longer pattern tuple
\* keeps at least the paths a shorter one keeps.
C5_Monotone ==
    /\ pc = "done" =>
          /\ KeysUnder(subset, "paths")
               = KeysUnder(schema, "paths") \cap {paths[i] : i \in DOMAIN paths}
          /\ \A k \in KeysUnder(subset, "paths") :
               subset.map["paths"].map[k] = schema.map["paths"].map[k]
    /\ Len(results) = 3 =>
          KeysUnder(results[1], "paths") \subseteq KeysUnder(results[3], "paths")

C5_Witness ==
    /\ Len(results) = 3
    /\ KeysUnder(results[1], "paths") = {"ping"}
    /\ KeysUnder(results[3], "paths") = {"ping", "/api/tags/"}

C7_LoopTerminates ==
    [][/\ (pc = "while" /\ pc' = "while")
            => /\ needed_refs \subseteq needed_refs'
               /\ needed_refs' \subseteq CollectRefs(schema)
               /\ passes' <= Cardinality(CollectRefs(schema)) + 1
               /\ (needed_refs' = needed_refs)
                     <=> (Cardinality(needed_refs') = prev_size')
       /\ (pc = "while" /\ pc' = "done")
            => /\ passes >= 1
               /\ \A r \in needed_refs :
                    CollectRefs(ResolveRef(r, schema)) \subseteq needed_refs]_vars

\* a call has returned, after two passes or more, on a schema whose
\* components Tag and TagList reference each other
C7_Witness ==
    /\ pc = "done"
    /\ passes >= 2
    /\ RefTagList \in CollectRefs(ResolveRef(RefTag, schema))
    /\ RefTag \in CollectRefs(ResolveRef(RefTagList, schema))
    /\ {RefTag, RefTagList} \subseteq needed_refs

\* C6: no step of a call writes the documents or tuples handed to it: the
\* schema and the patterns of a running extract_paths call, the documents and
\* the filter of diff_schemas, and the values returned earlier stay as they are.
C6_InputsUntouched ==
    [][/\ S' = S /\ P' = P
       /\ A' = A /\ B' = B /\ paths_filter' = paths_filter
       /\ (pc \in {"extract", "while"} => schema' = schema /\ paths' = paths)
       /\ \A i \in DOMAIN results :
            i \in DOMAIN results' /\ results'[i] = results[i]]_vars

\* a call has returned a document with fewer components than the schema it
\* was given, which still has them all
C6_Witness ==
    /\ pc = "done"
    /\ schema = S
    /\ ComponentEntries(subset) # {}
    /\ ComponentEntries(subset) # ComponentEntries(schema)
    /\ <<"schemas", "Correspondent">> \in ComponentEntries(schema)

NoChanges == Ok([added_paths |-> <<>>, removed_paths |-> <<>>, changed_paths |-> <<>>])

\* C3: diff_schemas(A, A) returns a result with no added, no removed and no
\* changed path.
C3_Reflexive ==
    Len(diffs) = 3 => diffs[3] = NoChanges

\* the paths of the changed_paths of a returned SchemaDiff
ChangedKeys(d) == {d.changed_paths[i][1] : i \in DOMAIN d.changed_paths}

Mirrored(d, e) ==
    /\ d.added_paths = e.removed_paths
    /\ d.removed_paths = e.added_paths
    /\ ChangedKeys(d) = ChangedKeys(e)

\* C4: diff_schemas(A, B) and diff_schemas(B, A) return results whose added
\* and removed paths are swapped and whose changed paths are the same.
C4_Symmetric ==
    Len(diffs) >= 2 =>
        /\ ~IsFault(diffs[1])
        /\ ~IsFault(diffs[2])
        /\ Mirrored(diffs[1].ok, diffs[2].ok)

\* What is left of C4 when a call may raise: both calls raise or neither does,
\* and the results of two calls that return are mirrored.
SymmetricWhenReturned ==
    Len(diffs) >= 2 =>
        /\ IsFault(diffs[1]) <=> IsFault(diffs[2])
        /\ ~IsFault(diffs[1]) => Mirrored(diffs[1].ok, diffs[2].ok)

\* how often  x  occurs in a list
Count(list, x) == Cardinality({i \in DOMAIN list : list[i] = x})

\* the (in, name) pair of a parameter; None stands for a key it lacks
PairOf(param) == <<Get(param, "in", None), Get(param, "name", None)>>

\* the text of a pair in a descriptor, "?" for a part the parameter lacks
PairText(pair) ==
    (IF pair[1] = None THEN "?" ELSE PyStr(pair[1])) \o ":"
    \o (IF pair[2] = None THEN "?" ELSE PyStr(pair[2]))

HasGet(doc) ==
    /\ "/api/tags/" \in KeysUnder(doc, "paths")
    /\ "get" \in DOMAIN doc.map["paths"].map["/api/tags/"].map
    /\ "parameters" \in DOMAIN doc.map["paths"].map["/api/tags/"].map["get"].map

GetParams(doc) ==
    doc.map["paths"].map["/api/tags/"].map["get"].map["parameters"].list

WithParams(doc, list) ==
    [doc EXCEPT !.map["paths"].map["/api/tags/"].map["get"].map["parameters"]
                    = List(list)]

Reversed(list) == [i \in DOMAIN list |-> list[Len(list) + 1 - i]]

ParamsWith(list, pair) == {list[i] : i \in {j \in DOMAIN list : PairOf(list[j]) = pair}}

\* the parameter descriptors a returned SchemaDiff holds for GET /api/tags/
ParamDescriptors(d) ==
    LET lists == {d.changed_paths[i][2] :
                    i \in {j \in DOMAIN d.changed_paths :
                             d.changed_paths[j][1] = "/api/tags/"}}
    IN  IF lists = {} THEN <<>>
        ELSE SelectSeq(CHOOSE l \in lists : TRUE,
                       LAMBDA x : StartsWith(x, "GET param "))

\* the key a parameter descriptor ends with
DescriptorKey(d) ==
    IF StartsWith(d, "GET param added: ")
    THEN DropPrefix(d, Len("GET param added: "))
    ELSE DropPrefix(d, Len("GET param removed: "))

IsSortedList(list) ==
    \A i \in DOMAIN list : \A j \in DOMAIN list :
        i < j => ~StrLess(list[j], list[i])

\* C9: parameters are matched by their (in, name) pair: a pair of the new
\* operation alone gives one "param added", a pair of the old operation alone
\* one "param removed", a pair of both one "param changed" exactly when the
\* two parameters differ; the descriptors come in sorted order and do not
\* depend on the position of the parameters in their lists.
C9_MatchedByPair ==
    (Len(diffs) >= 1 /\ ~IsFault(diffs[1]) /\ HasGet(A) /\ HasGet(B)) =>
        LET old == GetParams(A)
            new == GetParams(B)
            oldPairs == {PairOf(old[i]) : i \in DOMAIN old}
            newPairs == {PairOf(new[i]) : i \in DOMAIN new}
            emitted == ParamDescriptors(diffs[1].ok)
        IN  /\ \A pair \in newPairs \ oldPairs :
                 Count(emitted, "GET param added: " \o PairText(pair)) = 1
            /\ \A pair \in oldPairs \ newPairs :
                 Count(emitted, "GET param removed: " \o PairText(pair)) = 1
            /\ \A pair \in oldPairs \cap newPairs :
                 \A p \in ParamsWith(old, pair) : \A q \in ParamsWith(new, pair) :
                    (Cardinality(ParamsWith(old, pair)) = 1
                       /\ Cardinality(ParamsWith(new, pair)) = 1)
                    => (Count(emitted, "GET param changed: " \o PairText(pair))
                          = IF p # q THEN 1 ELSE 0)
            /\ \A i \in DOMAIN emitted :
                 \/ \E pair \in newPairs \ oldPairs :
                      emitted[i] = "GET param added: " \o PairText(pair)
                 \/ \E pair \in oldPairs \ newPairs :
                      emitted[i] = "GET param removed: " \o PairText(pair)
                 \/ \E pair \in oldPairs \cap newPairs :
                      emitted[i] = "GET param changed: " \o PairText(pair)
            /\ IsSortedList([i \in DOMAIN emitted |-> DescriptorKey(emitted[i])])
            /\ DiffSchemas(WithParams(A, Reversed(old)), B, paths_filter) = diffs[1]
            /\ DiffSchemas(A, WithParams(B, Reversed(new)), paths_filter) = diffs[1]

\* the pointers the resolution is tried on
RefPool ==
    {RefTag, RefTagList, RefCorrespondent, RefPage, RefTagDeep, RefPing,
     RefMissing, RefExternal, RefCategory, RefThroughString, RefThroughList,
     "", "#", "#/", "paths/ping"}

\* walking  parts  from  current  meets a key that is missing or a value that
\* is no mapping
RECURSIVE Broken(_, _)
Broken(parts, current) ==
    /\ parts # <<>>
    /\ \/ ~IsMap(current)
       \/ Head(parts) \notin DOMAIN current.map
       \/ Broken(Tail(parts), current.map[Head(parts)])

\* every key of every path item that is neither "parameters" nor an "x-" key
\* holds an operation object
OperationShaped(doc) ==
    \A path \in KeysUnder(doc, "paths") :
        \A key \in DOMAIN doc.map["paths"].map[path].map :
            IsMethodKey(key) => IsMap(doc.map["paths"].map[path].map[key])

\* C10: resolution returns None for a pointer that does not start with "#/"
\* and for one that meets a missing key or a value that is no mapping;
\* extract_paths returns a document with openapi, info and paths whatever keys
\* the schema lacks, and a reference that does not resolve adds nothing to the
\* closure; diff_schemas returns a result whatever keys the operations and the
\* parameters lack.
C10_NeverFaults ==
    /\ pc = "done" =>
          \A ref \in needed_refs \cup RefPool :
             /\ ~IsFault(ResolveRef(ref, schema))
             /\ ~StartsWith(ref, "#/") => ResolveRef(ref, schema) = None
             /\ (StartsWith(ref, "#/") /\ Broken(Split(DropPrefix(ref, 2)), schema))
                   => ResolveRef(ref, schema) = None
    /\ pc = "done" =>
          /\ IsMap(subset)
          /\ {"openapi", "info", "paths"} \subseteq DOMAIN subset.map
          /\ DOMAIN subset.map \subseteq {"openapi", "info", "paths", "components"}
          /\ "openapi" \notin DOMAIN schema.map => subset.map["openapi"] = Str("3.0.0")
          /\ "info" \notin DOMAIN schema.map => subset.map["info"] = EmptyMap
          /\ "paths" \notin DOMAIN schema.map => subset.map["paths"] = EmptyMap
          /\ "components" \notin DOMAIN schema.map
                => "components" \notin DOMAIN subset.map
          /\ \A ref \in needed_refs :
                \/ ref \in CollectRefs(kept_paths)
                \/ \E r \in needed_refs :
                      /\ ResolveRef(r, schema) # None
                      /\ ref \in CollectRefs(ResolveRef(r, schema))
    /\ \A i \in DOMAIN diffs :
          (OperationShaped(A) /\ OperationShaped(B)) => ~IsFault(diffs[i])

\* diff_schemas has returned for an operation without requestBody whose
\* parameter has no "in", against an operation without responses
C10_Witness ==
    /\ Len(diffs) = 3
    /\ A = Document("paths" :> Map("/api/tags/" :> Map("get" :>
                Operation("parameters" :> List(<<pNoIn>>), <<>>, BaseResponses))))
    /\ B = Document("paths" :> Map("/api/tags/" :> Map("get" :>
                Operation(BaseParams, <<>>, <<>>))))
    /\ ~IsFault(diffs[1])
    /\ diffs[1].ok.changed_paths # <<>>

\* both documents have the path /api/tags/
HasTags(doc) == "/api/tags/" \in KeysUnder(doc, "paths")

TagsItem(doc) == doc.map["paths"].map["/api/tags/"].map

\* the descriptors a returned SchemaDiff holds for /api/tags/
ItemDescriptors(d) ==
    LET lists == {d.changed_paths[i][2] :
                    i \in {j \in DOMAIN d.changed_paths :
                             d.changed_paths[j][1] = "/api/tags/"}}
    IN  IF lists = {} THEN <<>> ELSE CHOOSE l \in lists : TRUE

\* the keys of the path items of the model, upper-cased
UpperKey(key) ==
    IF key = "get" THEN "GET"
    ELSE IF key = "post" THEN "POST"
    ELSE IF key = "summary" THEN "SUMMARY"
    ELSE IF key = "parameters" THEN "PARAMETERS"
    ELSE "X-INTERNAL"

\* C11: the path-item diff goes through the keys of both path items other
\* than "parameters" and "x-" keys, in sorted order: a key of the new item
\* alone gives "method added: KEY", a key of the old item alone "method
\* removed: KEY", a key of both the operation diff of its two values (and
\* raises when that raises); a change confined to "parameters" or to an "x-"
\* key gives no descriptor and the path is not reported as changed.
C11_PathItemDiff ==
    (Len(diffs) >= 1 /\ HasTags(A) /\ HasTags(B)) =>
        LET old == TagsItem(A)
            new == TagsItem(B)
            keys == {k \in DOMAIN old \cup DOMAIN new :
                       ~(k = "parameters" \/ StartsWith(k, "x-"))}
            common == keys \cap DOMAIN old \cap DOMAIN new
            faulty == \E k \in common : IsFault(DiffOperation(k, old[k], new[k]))
            order == Sorted(keys)
            expected(k) ==
                IF k \notin DOMAIN old THEN <<"method added: " \o UpperKey(k)>>
                ELSE IF k \notin DOMAIN new
                THEN <<"method removed: " \o UpperKey(k)>>
                ELSE DiffOperation(k, old[k], new[k]).ok
        IN  /\ IsSortedList(order)
            /\ IsFault(diffs[1]) <=> faulty
            /\ ~faulty =>
                  /\ ItemDescriptors(diffs[1].ok)
                        = Concat([i \in DOMAIN order |-> expected(order[i])])
                  /\ (\A k \in keys : k \in common /\ old[k] = new[k])
                        => /\ ItemDescriptors(diffs[1].ok) = <<>>
                           /\ "/api/tags/" \notin ChangedKeys(diffs[1].ok)

\* the old path item has only "post" and the new one only "get"
C11_Witness ==
    /\ Len(diffs) = 3
    /\ HasTags(A) /\ HasTags(B)
    /\ DOMAIN TagsItem(A) = {"post"}
    /\ DOMAIN TagsItem(B) = {"get"}
    /\ ~IsFault(diffs[1])
    /\ ItemDescriptors(diffs[1].ok) = <<"method added: GET", "method removed: POST">>

HasGetOp(doc) == HasTags(doc) /\ "get" \in DOMAIN TagsItem(doc)

GetOp(doc) == TagsItem(doc)["get"]

\* the descriptors a returned SchemaDiff holds for the GET operation of
\* /api/tags/
OpDescriptors(d) ==
    SelectSeq(ItemDescriptors(d), LAMBDA x : StartsWith(x, "GET "))

\* the group a descriptor of the GET operation belongs to
Rank(x) ==
    IF StartsWith(x, "GET param ") THEN 1
    ELSE IF x = "GET request body changed" THEN 2
    ELSE IF StartsWith(x, "GET response added: ") THEN 3
    ELSE IF StartsWith(x, "GET response removed: ") THEN 4
    ELSE 0

\* the codes of the descriptors of an operation that start with  prefix
CodesOf(list, prefix) ==
    LET chosen == SelectSeq(list, LAMBDA x : StartsWith(x, prefix))
    IN  [i \in DOMAIN chosen |-> DropPrefix(chosen[i], Len(prefix))]

\* the list holds the members of the set, each once, in ascending order
AscendingListOf(list, set) ==
    /\ {list[i] : i \in DOMAIN list} = set
    /\ Len(list) = Cardinality(set)
    /\ IsSortedList(list)

\* the schema under application/json, or under multipart/form-data when the
\* operation has no application/json media type; None when there is none
BodySchemaOf(op) ==
    LET body == IF "requestBody" \in DOMAIN op.map
                THEN op.map["requestBody"].map ELSE <<>>
        content == IF "content" \in DOMAIN body THEN body["content"].map ELSE <<>>
        media == IF "application/json" \in DOMAIN content
                 THEN content["application/json"].map
                 ELSE IF "multipart/form-data" \in DOMAIN content
                 THEN content["multipart/form-data"].map
                 ELSE <<>>
    IN  IF "schema" \in DOMAIN media THEN media["schema"] ELSE None

\* C12: the descriptors of one operation diff come in groups: the parameter
\* descriptors, then at most one "request body changed", then the "response
\* added" descriptors in ascending code order, then the "response removed"
\* ones in ascending code order; the response descriptors are those of the
\* codes one side alone has, whatever the responses hold; and the request
\* body descriptor is there exactly when the schema under application/json
\* (under multipart/form-data when that media type is absent) differs.
C12_DescriptorOrder ==
    (Len(diffs) >= 1 /\ ~IsFault(diffs[1]) /\ HasGetOp(A) /\ HasGetOp(B)) =>
        LET old == GetOp(A)
            new == GetOp(B)
            emitted == OpDescriptors(diffs[1].ok)
        IN  /\ \A i \in DOMAIN emitted : Rank(emitted[i]) \in 1..4
            /\ \A i \in DOMAIN emitted : \A j \in DOMAIN emitted :
                  i < j => Rank(emitted[i]) <= Rank(emitted[j])
            /\ Count(emitted, "GET request body changed")
                  = IF BodySchemaOf(old) # BodySchemaOf(new) THEN 1 ELSE 0
            /\ AscendingListOf(CodesOf(emitted, "GET response added: "),
                               KeysUnder(new, "responses")
                                 \ KeysUnder(old, "responses"))
            /\ AscendingListOf(CodesOf(emitted, "GET response removed: "),
                               KeysUnder(old, "responses")
                                 \ KeysUnder(new, "responses"))

\* an operation diff with a descriptor of each of the four groups
C12_Witness ==
    /\ Len(diffs) = 3
    /\ ~IsFault(diffs[1])
    /\ HasGetOp(A) /\ HasGetOp(B)
    /\ OpDescriptors(diffs[1].ok)
         = <<"GET param added: query:page_size", "GET request body changed",
             "GET response added: 404", "GET response removed: 200">>

====
